---- MODULE Spec2Model ----
(***************************************************************************)
(* Model of the two checks of update_language_files.py:                    *)
(*   - check_syntax_of_po_files(): placeholder checks of translated        *)
(*     strings (command "syntax"),                                         *)
(*   - check_shortcuts() with get_shortcut_groups() and                    *)
(*     get_shortcut_entries(): redundant "&" shortcut letters per GUI      *)
(*     group (command "shortcuts").                                        *)
(* Strings are sequences of one-character strings.  po files are read as a *)
(* stream: each loop iteration draws the next entry of the file.           *)
(***************************************************************************)
EXTENDS Integers, Sequences, FiniteSets, TLC

(***************************************************************************)
(* Bounds of the model.                                                    *)
(***************************************************************************)
\* number of po files below LOCAL_DIR
NumPoFiles == 1
\* entries per po file in the syntax pass
MaxSyntaxEntries == 1
\* entries per po file in the shortcut pass
MaxPoEntries == 3
\* a source string of the syntax pass is one of some given ones or is built
\* of at most so many pieces
MaxSrcTok == 2
\* a translation of the syntax pass is one of some given ones or is built of
\* at most so many pieces
MaxTransTok == 2
\* a translation of the shortcut pass is "S" or is built of at most so many
\* pieces
MaxScTok == 1
\* entries per po file in the scan of the syntax pass with few translations
MaxScanEntries == 3
\* entries appended to the expected template entries
MaxExtra == 1
\* expected template entries that are missing
MaxDropped == 1

(***************************************************************************)
(* Characters and strings.                                                 *)
(***************************************************************************)
\* the characters of the model in code point order
AsciiOrder ==
  << " ", "&", "-",
     "A", "B", "E", "G", "H", "I", "N", "O", "Q", "R", "S", "T",
     "[", "]",
     "a", "c", "d", "e", "i", "k", "l", "m", "n", "o", "p", "r", "s",
     "t", "u", "v", "w", "x",
     "{", "}" >>

Ord(c) == CHOOSE i \in DOMAIN AsciiOrder : AsciiOrder[i] = c

\* \w of the regular expressions: letters (digits and "_" are not in the
\* alphabet of the model)
IsWord(c) == c \notin {" ", "&", "-", "[", "]", "{", "}"}

Range(seq) == {seq[i] : i \in DOMAIN seq}

SetMin(S) == CHOOSE x \in S : \A y \in S : x <= y

\* str.count(ch)
Count(ch, s) == Cardinality({i \in DOMAIN s : s[i] = ch})

\* a < b for Python str: lexicographic by code point
RECURSIVE StrLess(_, _)
StrLess(a, b) ==
  IF b = << >> THEN FALSE
  ELSE IF a = << >> THEN TRUE
  ELSE IF a[1] # b[1] THEN Ord(a[1]) < Ord(b[1])
  ELSE StrLess(Tail(a), Tail(b))

RECURSIVE InsertSorted(_, _)
InsertSorted(x, seq) ==
  IF seq = << >> THEN << x >>
  ELSE IF StrLess(seq[1], x) THEN << seq[1] >> \o InsertSorted(x, Tail(seq))
  ELSE << x >> \o seq

\* sorted(list of str)
RECURSIVE sorted(_)
sorted(seq) ==
  IF seq = << >> THEN << >>
  ELSE InsertSorted(seq[1], sorted(Tail(seq)))

\* all concatenations of at most n pieces of T
RECURSIVE Words(_, _)
Words(T, n) ==
  IF n = 0 THEN { << >> }
  ELSE LET W == Words(T, n - 1)
       IN  W \cup {w \o t : w \in W, t \in T}

(***************************************************************************)
(* Regular expressions and helpers of check_syntax_of_po_files.            *)
(***************************************************************************)
\* rex_reduce.sub('', to_check): drop every character but "{" and "}"
rex_reduce_sub(s) == SelectSeq(s, LAMBDA c : c \in {"{", "}"})

\* only the first "{}" is dropped
RECURSIVE rex_curly_pair_sub_first(_)
rex_curly_pair_sub_first(s) ==
  IF Len(s) < 2 THEN s
  ELSE IF s[1] = "{" /\ s[2] = "}"
       THEN SubSeq(s, 3, Len(s))
       ELSE << s[1] >> \o rex_curly_pair_sub_first(Tail(s))

\* rex_curly_pair.sub('', reduced): drop the "{}" matches, left to right
RECURSIVE rex_curly_pair_sub(_)
rex_curly_pair_sub(s) ==
  IF Len(s) < 2 THEN s
  ELSE IF s[1] = "{" /\ s[2] = "}"
       THEN rex_curly_pair_sub(SubSeq(s, 3, Len(s)))
       ELSE << s[1] >> \o rex_curly_pair_sub(Tail(s))

\* rex_curly_pair.findall(s) is not empty
rex_curly_pair_found(s) ==
  \E i \in 1..(Len(s) - 1) : s[i] = "{" /\ s[i + 1] = "}"

\* rex_names.findall(s): the texts between each "{" and the next "}"
RECURSIVE rex_names_findall(_)
rex_names_findall(s) ==
  LET opens == {i \in DOMAIN s : s[i] = "{" /\ \E j \in (i + 1)..Len(s) : s[j] = "}"}
  IN  IF opens = {} THEN << >>
      ELSE LET i == SetMin(opens)
               j == SetMin({k \in (i + 1)..Len(s) : s[k] = "}"})
           IN  << SubSeq(s, i + 1, j - 1) >>
                 \o rex_names_findall(SubSeq(s, j + 1, Len(s)))

\* the two tests in the other order
curly_brackets_balanced_swapped(to_check) ==
  LET reduced == rex_reduce_sub(to_check)
      invalid == rex_curly_pair_sub(reduced)
  IN  IF invalid # << >> THEN "Unbalanced"
      ELSE IF rex_curly_pair_found(invalid) THEN "Nested"
      ELSE "ok"

\* _curly_brackets_balanced(to_check): "ok" for True; for False the error
\* that is printed
curly_brackets_balanced(to_check) ==
  LET reduced == rex_reduce_sub(to_check)
      invalid == rex_curly_pair_sub(reduced)
  IN  IF rex_curly_pair_found(invalid) THEN "Nested"
      ELSE IF invalid # << >> THEN "Unbalanced"
      ELSE "ok"

\* the field of a replacement field: position of its closing "}" in t
\* scanning from k, 0 for a ValueError
RECURSIVE FieldEnd(_, _)
FieldEnd(t, k) ==
  IF k > Len(t) THEN 0
  ELSE IF t[k] = "{" THEN 0
  ELSE IF t[k] = "}" THEN k
  ELSE IF t[k] = "["
       THEN LET close == {j \in (k + 1)..Len(t) : t[j] = "]"}
            IN  IF close = {} THEN 0 ELSE FieldEnd(t, SetMin(close))
  ELSE FieldEnd(t, k + 1)

\* list(string.Formatter().parse(s)) raises no exception (":" and "!" are
\* not in the alphabet of the model)
RECURSIVE FormatterParses(_)
FormatterParses(s) ==
  LET braces == {i \in DOMAIN s : s[i] \in {"{", "}"}}
  IN  IF braces = {} THEN TRUE
      ELSE LET i == SetMin(braces)
               at_end == (i = Len(s))
           IN  IF s[i] = "}" /\ (at_end \/ s[i + 1] # "}") THEN FALSE
               ELSE IF at_end THEN FALSE
               ELSE IF s[i + 1] = s[i]
                    THEN FormatterParses(SubSeq(s, i + 2, Len(s)))
               ELSE LET t == SubSeq(s, i + 1, Len(s))
                        e == FieldEnd(t, 1)
                    IN  IF e = 0 THEN FALSE
                        ELSE FormatterParses(SubSeq(t, e + 1, Len(t)))

\* _other_errors(to_check)
other_errors(to_check) == FormatterParses(to_check)

IgnoreFlag == "ignore-placeholder-compare"

\* the names compared as sets
names_differ_sets(org_names, trans_names) ==
  Range(org_names) # Range(trans_names)

\* the comparison of the placeholder names in _place_holders
names_differ(org_names, trans_names) ==
  sorted(org_names) # sorted(trans_names)

\* the flag is not looked at
place_holders_flag_ignored(trans_string, src_string, flags) ==
  IF Count("{", src_string) # Count("{", trans_string) THEN "CountMismatch"
  ELSE IF Count("}", src_string) # Count("}", trans_string) THEN "CountMismatch"
  ELSE IF names_differ(rex_names_findall(src_string),
                       rex_names_findall(trans_string))
       THEN "NameMismatch"
  ELSE "ok"

\* _place_holders(trans_string, src_string, flags): "ok" for True; for False
\* the error that is printed
place_holders(trans_string, src_string, flags) ==
  IF IgnoreFlag \in flags THEN "ok"
  ELSE IF Count("{", src_string) # Count("{", trans_string) THEN "CountMismatch"
  ELSE IF Count("}", src_string) # Count("}", trans_string) THEN "CountMismatch"
  ELSE IF names_differ(rex_names_findall(src_string),
                       rex_names_findall(trans_string))
       THEN "NameMismatch"
  ELSE "ok"

(***************************************************************************)
(* Shortcut letters, shortcut entries and shortcut groups.                 *)
(***************************************************************************)
NoMatch == "None"

\* REX_SHORTCUT_LETTER.search(s): the word character after the first "&"
\* that is followed by one; NoMatch when search() returns None
rex_shortcut_letter_search(s) ==
  LET hits == {i \in 1..(Len(s) - 1) : s[i] = "&" /\ IsWord(s[i + 1])}
  IN  IF hits = {} THEN NoMatch ELSE s[SetMin(hits) + 1]

\* the lambda of get_shortcut_entries
is_shortcut_entry(e) ==
  e.obsolete = FALSE /\ rex_shortcut_letter_search(e.msgid) # NoMatch

\* get_shortcut_entries(po_file)
get_shortcut_entries(po_file) == SelectSeq(po_file, is_shortcut_entry)

s_Backup == << "&", "B", "a", "c", "k", "u", "p" >>
s_Restore == << "&", "R", "e", "s", "t", "o", "r", "e" >>
s_Help == << "&", "H", "e", "l", "p" >>
s_General == << "&", "G", "e", "n", "e", "r", "a", "l" >>
s_Include == << "&", "I", "n", "c", "l", "u", "d", "e" >>
s_Exclude == << "&", "E", "x", "c", "l", "u", "d", "e" >>
s_AutoRemove == << "&", "A", "u", "t", "o", "-", "r", "e", "m", "o", "v", "e" >>
s_Options == << "&", "O", "p", "t", "i", "o", "n", "s" >>
s_BackInTime == << "B", "a", "c", "k", " ", "I", "n", " ", "&", "T", "i", "m", "e" >>
s_ExpertOptions ==
  << "E", "&", "x", "p", "e", "r", "t", " ", "O", "p", "t", "i", "o", "n", "s" >>

\* the list "expect" of get_shortcut_groups
expect ==
  << s_Backup, s_Restore, s_Help,
     s_General, s_Include, s_Exclude, s_AutoRemove, s_Options,
     s_BackInTime, s_ExpertOptions >>

\* the strings compared as sets
drift_sets(real_msgids, expected) == Range(real_msgids) # Range(expected)

\* the plausibility check of get_shortcut_groups: TRUE when ValueError is
\* raised
drift(real_msgids, expected) == ~ (sorted(real_msgids) = sorted(expected))

\* the source strings of the entries of the template that use a shortcut
real_of_template(pot) ==
  LET ents == get_shortcut_entries(pot)
  IN  [i \in DOMAIN ents |-> ents[i].msgid]

\* the dictionary returned by get_shortcut_groups
shortcut_groups ==
  LET expect2 == << s_BackInTime >> \o expect
  IN  [mainwindow |-> SubSeq(expect2, 1, 4),
       manageprofile |-> SubSeq(expect2, 5, Len(expect2))]

\* the keys of the dictionary in their order
GroupNames == << "mainwindow", "manageprofile" >>

NoGroups == [mainwindow |-> << >>, manageprofile |-> << >>]

\* the letters collected of the translations of one group
RECURSIVE collect_letters(_)
collect_letters(translations) ==
  IF translations = << >> THEN << >>
  ELSE LET m == rex_shortcut_letter_search(translations[1])
       IN  (IF m = NoMatch THEN << >> ELSE << m >>)
             \o collect_letters(Tail(translations))

\* upper case "S" folded to lower case
Lower(c) == IF c = "S" THEN "s" ELSE c

\* the letters compared without regard to case
redundant_casefold(letters) ==
  Len(letters) > Cardinality({Lower(letters[i]) : i \in DOMAIN letters})

\* len(letters) > len(set(letters))
redundant(letters) == Len(letters) > Cardinality(Range(letters))

\* "<=" for "<"
maybe_missing_le(letters, translations) == Len(letters) <= Len(translations)

\* len(letters) < len(real[groupname])
maybe_missing(letters, translations) == Len(letters) < Len(translations)

\* what check_shortcuts prints for one group of one po file
group_report(po, groupname, translations) ==
  LET letters == collect_letters(translations)
  IN  IF redundant(letters)
      THEN << [po |-> po, group |-> groupname,
               missing |-> maybe_missing(letters, translations)] >>
      ELSE << >>

(***************************************************************************)
(* The files.                                                              *)
(***************************************************************************)
SrcTokens == { << "a" >>, << "}" >>, << "{", "}" >>, << "{", "a", "}" >> }
TransTokens ==
  { << "{" >>, << "}" >>, << "a" >>, << "[" >>, << "{", "}" >>, << "{", "a", "}" >> }
\* strings with three placeholders, two of them of the same name
SrcGiven == { << "{", "}", "{", "}", "{", "a", "}" >> }
TransGiven ==
  { << "{", "}", "{", "a", "}", "{", "a", "}" >>,
    << "{", "{", "}", "}" >>,
    << "{", "[", "}" >> }
SrcStrings == SrcGiven \cup Words(SrcTokens, MaxSrcTok)
TransStrings == TransGiven \cup Words(TransTokens, MaxTransTok)

\* entry.msgstr_plural or entry.msgid_plural
has_plural(e) == e.plural

\* the entries a po file of the syntax pass may hold
SyntaxPoEntries ==
  [msgid : SrcStrings, msgstr : TransStrings,
   flags : {{}, {IgnoreFlag}}, obsolete : {FALSE}, plural : BOOLEAN]
  \cup [msgid : {<< "a" >>}, msgstr : {<< >>, << "{" >>},
        flags : {{}, {"fuzzy"}}, obsolete : BOOLEAN, plural : {FALSE}]

\* polib: POFile.translated_entries()
translated_entries(pof) ==
  {e \in pof : /\ ~ e.obsolete
               /\ "fuzzy" \notin e.flags
               /\ (e.msgstr # << >> \/ e.plural)}

TranslatedSyntaxEntries == translated_entries(SyntaxPoEntries)

\* few translations of the source string "{a}", one for each result of the
\* checks: good, not balanced, nested, not parseable, other count, other name
ScanStrings ==
  { << "{", "a", "}" >>,
    << "{" >>,
    << "{", "{", "}", "}" >>,
    << "{", "[", "}" >>,
    << "{", "a", "}", "{", "a", "}" >>,
    << "{", "}" >> }

\* the entries a po file of the scan with few translations may hold
ScanPoEntries ==
  [msgid : {<< "{", "a", "}" >>}, msgstr : ScanStrings \cup {<< >>},
   flags : {{}, {IgnoreFlag}}, obsolete : {FALSE}, plural : BOOLEAN]

TranslatedScanEntries == translated_entries(ScanPoEntries)

s_New == << "&", "N", "e", "w" >>
s_QA == << "Q", " ", "&", " ", "A" >>

ScTokens == { << "&", "S" >>, << "&", "s" >> }
ScStrings == { << "S" >> } \cup Words(ScTokens, MaxScTok)

\* the entries a po file of the shortcut pass may hold
ShortcutPoEntries ==
  [msgid : {s_Backup, s_BackInTime, s_General, s_QA},
   msgstr : ScStrings, flags : {{}}, obsolete : BOOLEAN, plural : BOOLEAN]

ShortcutEntriesOfPo == {e \in ShortcutPoEntries : is_shortcut_entry(e)}

\* the entries of messages.pot: those expected, but for some that are
\* missing, followed by some others
ExtraPotEntries ==
  { [msgid |-> s_New, obsolete |-> FALSE],
    [msgid |-> s_New, obsolete |-> TRUE],
    [msgid |-> s_QA, obsolete |-> FALSE],
    [msgid |-> s_Backup, obsolete |-> FALSE] }

RECURSIVE SeqsUpTo(_, _)
SeqsUpTo(S, n) ==
  IF n = 0 THEN { << >> }
  ELSE LET W == SeqsUpTo(S, n - 1)
       IN  W \cup {Append(w, x) : w \in W, x \in S}

Templates ==
  LET live == [i \in DOMAIN expect |-> [msgid |-> expect[i], obsolete |-> FALSE]]
      drops == {D \in SUBSET (DOMAIN expect) : Cardinality(D) <= MaxDropped}
  IN  { SelectSeq(live, LAMBDA e : \A i \in D : expect[i] # e.msgid) \o X :
          D \in drops, X \in SeqsUpTo(ExtraPotEntries, MaxExtra) }

(***************************************************************************)
(* The state.                                                              *)
(***************************************************************************)
VARIABLES
  argv,        \* the command of sys.argv: "syntax" or "shortcuts"
  pc,          \* the position in the program
  template,    \* the entries of messages.pot while they are held
  poIdx,       \* the number of po files opened
  entIdx,      \* the number of entries of the current po file iterated
  entry,       \* the entry of the current iteration
  printed,     \* the errors printed for the entry (syntax pass)
  reported,    \* the number of "Source string" lines printed (syntax pass)
  groups,      \* the result of get_shortcut_groups()
  real,        \* check_shortcuts: translations per group of the po file
  collisions   \* check_shortcuts: the reports printed

vars == << argv, pc, template, poIdx, entIdx, entry, printed, reported, groups,
           real, collisions >>

NoEntry == [none |-> TRUE]

Init ==
  /\ argv \in {"syntax", "shortcuts"}
  /\ pc = "main"
  /\ template = << >>
  /\ poIdx = 0
  /\ entIdx = 0
  /\ entry = NoEntry
  /\ printed = << >>
  /\ reported = 0
  /\ groups = NoGroups
  /\ real = NoGroups
  /\ collisions = << >>

(***************************************************************************)
(* __main__                                                                *)
(***************************************************************************)
MainSyntax ==
  /\ pc = "main" /\ argv = "syntax"
  /\ pc' = "po_loop"
  /\ UNCHANGED << argv, template, poIdx, entIdx, entry, printed, reported,
                  groups, real, collisions >>

MainShortcuts ==
  /\ pc = "main" /\ argv = "shortcuts"
  /\ pc' = "groups"
  /\ UNCHANGED << argv, template, poIdx, entIdx, entry, printed, reported,
                  groups, real, collisions >>

(***************************************************************************)
(* check_syntax_of_po_files                                                *)
(***************************************************************************)
\* for po_path in all_po_files_in_local_dir(): the next po file is opened
SyntaxNextPoFile ==
  /\ pc = "po_loop" /\ poIdx < NumPoFiles
  /\ poIdx' = poIdx + 1
  /\ entIdx' = 0
  /\ pc' = "entry_loop"
  /\ UNCHANGED << argv, template, entry, printed, reported, groups, real,
                  collisions >>

\* there is no other po file
SyntaxFinished ==
  /\ pc = "po_loop"
  /\ pc' = "exit"
  /\ UNCHANGED << argv, template, poIdx, entIdx, entry, printed, reported,
                  groups, real, collisions >>

\* for entry in pof.translated_entries(): the next entry, of a po file
\* of at most max translated entries out of pof
NextEntryOf(pof, max) ==
  /\ pc = "entry_loop" /\ entIdx < max
  /\ \E e \in pof : entry' = e
  /\ entIdx' = entIdx + 1
  /\ printed' = << >>
  /\ pc' = "plural"
  /\ UNCHANGED << argv, template, poIdx, reported, groups, real, collisions >>

NextEntry == NextEntryOf(TranslatedSyntaxEntries, MaxSyntaxEntries)

\* the po file has no other translated entry
EndOfPoFile ==
  /\ pc = "entry_loop"
  /\ pc' = "po_loop"
  /\ UNCHANGED << argv, template, poIdx, entIdx, entry, printed, reported,
                  groups, real, collisions >>

\* if entry.msgstr_plural or entry.msgid_plural: continue
PluralForm ==
  /\ pc = "plural"
  /\ pc' = IF has_plural(entry) THEN "continue" ELSE "balanced"
  /\ UNCHANGED << argv, template, poIdx, entIdx, entry, printed, reported,
                  groups, real, collisions >>

\* the operands after a failed check are evaluated as well
CheckStep_goes_on(here, result, next) ==
  /\ pc = here
  /\ pc' = next
  /\ IF result = "ok"
     THEN printed' = printed /\ reported' = reported
     ELSE printed' = Append(printed, result) /\ reported' = reported + 1
  /\ UNCHANGED << argv, template, poIdx, entIdx, entry, groups, real,
                  collisions >>

\* one operand of the condition "not ... or not ... or not ...": when the
\* check fails its error is printed, the condition is true and the source
\* string is printed
CheckStep(here, result, next) ==
  /\ pc = here
  /\ IF result = "ok"
     THEN pc' = next /\ printed' = printed /\ reported' = reported
     ELSE /\ pc' = "continue"
          /\ printed' = Append(printed, result)
          /\ reported' = reported + 1
  /\ UNCHANGED << argv, template, poIdx, entIdx, entry, groups, real,
                  collisions >>

CurlyBracketsBalanced ==
  CheckStep("balanced", curly_brackets_balanced(entry.msgstr), "other")

\* the exception of the parser is not caught: the program ends
OtherErrors_uncaught ==
  /\ pc = "other"
  /\ pc' = IF other_errors(entry.msgstr) THEN "place" ELSE "traceback"
  /\ UNCHANGED << argv, template, poIdx, entIdx, entry, printed, reported,
                  groups, real, collisions >>

OtherErrors ==
  CheckStep("other",
            IF other_errors(entry.msgstr) THEN "ok" ELSE "Malformed",
            "place")

PlaceHolders ==
  CheckStep("place", place_holders(entry.msgstr, entry.msgid, entry.flags),
            "continue")

\* the end of the body of the loop
Continue ==
  /\ pc = "continue"
  /\ pc' = "entry_loop"
  /\ entry' = NoEntry
  /\ printed' = << >>
  /\ UNCHANGED << argv, template, poIdx, entIdx, reported, groups, real,
                  collisions >>

(***************************************************************************)
(* check_shortcuts                                                         *)
(***************************************************************************)
\* the error is not raised
GetShortcutGroups_no_raise ==
  /\ pc = "groups"
  /\ \E pot \in Templates :
       /\ template' = pot
       /\ pc' = "sc_po_loop" /\ groups' = shortcut_groups
  /\ UNCHANGED << argv, poIdx, entIdx, entry, printed, reported, real,
                  collisions >>

\* groups = get_shortcut_groups(): messages.pot is read and compared
GetShortcutGroups ==
  /\ pc = "groups"
  /\ \E pot \in Templates :
       /\ template' = pot
       /\ IF drift(real_of_template(pot), expect)
          THEN pc' = "raised" /\ groups' = groups
          ELSE pc' = "sc_po_loop" /\ groups' = shortcut_groups
  /\ UNCHANGED << argv, poIdx, entIdx, entry, printed, reported, real,
                  collisions >>

\* for po_path in list(LOCAL_DIR.rglob('**/*.po')): the next po file; the
\* entries of messages.pot, local to get_shortcut_groups, are gone by now
ScNextPoFile ==
  /\ pc = "sc_po_loop" /\ poIdx < NumPoFiles
  /\ poIdx' = poIdx + 1
  /\ entIdx' = 0
  /\ real' = [g \in DOMAIN groups |-> << >>]
  /\ template' = << >>
  /\ pc' = "sc_entries"
  /\ UNCHANGED << argv, entry, printed, reported, groups, collisions >>

ScFinished ==
  /\ pc = "sc_po_loop"
  /\ pc' = "exit"
  /\ UNCHANGED << argv, template, poIdx, entIdx, entry, printed, reported,
                  groups, real, collisions >>

\* for entry in shortcut_entries: the next entry
ScNextEntry ==
  /\ pc = "sc_entries" /\ entIdx < MaxPoEntries
  /\ \E e \in ShortcutEntriesOfPo : entry' = e
  /\ entIdx' = entIdx + 1
  /\ pc' = "sc_group"
  /\ UNCHANGED << argv, template, poIdx, printed, reported, groups, real,
                  collisions >>

\* for groupname in real: if entry.msgid in groups[groupname]: append
ScGroupEntry ==
  /\ pc = "sc_group"
  /\ real' = [g \in DOMAIN real |->
                IF entry.msgid \in Range(groups[g])
                THEN Append(real[g], entry.msgstr) ELSE real[g]]
  /\ entry' = NoEntry
  /\ pc' = "sc_entries"
  /\ UNCHANGED << argv, template, poIdx, entIdx, printed, reported, groups,
                  collisions >>

\* for groupname in real: the letters are collected and compared
ScCheckGroups ==
  /\ pc = "sc_entries"
  /\ collisions' = collisions
                     \o group_report(poIdx, GroupNames[1], real[GroupNames[1]])
                     \o group_report(poIdx, GroupNames[2], real[GroupNames[2]])
  /\ pc' = "sc_po_loop"
  /\ UNCHANGED << argv, template, poIdx, entIdx, entry, printed, reported,
                  groups, real >>

Next ==
  \/ MainSyntax
  \/ MainShortcuts
  \/ SyntaxNextPoFile
  \/ SyntaxFinished
  \/ NextEntry
  \/ EndOfPoFile
  \/ PluralForm
  \/ CurlyBracketsBalanced
  \/ OtherErrors
  \/ PlaceHolders
  \/ Continue
  \/ GetShortcutGroups
  \/ ScNextPoFile
  \/ ScFinished
  \/ ScNextEntry
  \/ ScGroupEntry
  \/ ScCheckGroups

Spec == Init /\ [][Next]_vars

\* The syntax pass alone, over po files with few translations.  The program
\* is sequential and none of its steps blocks: it goes on as long as it has
\* a next step.
ScanInit == Init /\ argv = "syntax"

ScanNextEntry == NextEntryOf(TranslatedScanEntries, MaxScanEntries)

ScanNext ==
  \/ MainSyntax
  \/ SyntaxNextPoFile
  \/ SyntaxFinished
  \/ ScanNextEntry
  \/ EndOfPoFile
  \/ PluralForm
  \/ CurlyBracketsBalanced
  \/ OtherErrors
  \/ PlaceHolders
  \/ Continue

FairScanSpec == ScanInit /\ [][ScanNext]_vars /\ WF_vars(ScanNext)

(***************************************************************************)
(* Vocabulary of the properties.                                           *)
(***************************************************************************)
\* an entry of the syntax pass has gone through the checks of the loop body
SyntaxChecked ==
  argv = "syntax" /\ pc = "continue" /\ entry # NoEntry /\ ~ has_plural(entry)

\* _curly_brackets_balanced has returned for the entry of the iteration
BalanceDecided ==
  /\ argv = "syntax" /\ entry # NoEntry /\ ~ has_plural(entry)
  /\ pc \in {"other", "place", "continue"}

\* ... and it has returned True
BalanceTrue ==
  pc \in {"other", "place"}
    \/ (pc = "continue" /\ Range(printed) \cap {"Nested", "Unbalanced"} = {})

\* the braces of s, in their order
BraceProjection(s) == SelectSeq(s, LAMBDA c : c = "{" \/ c = "}")

\* s is "{}" repeated zero or more times
IsPairs(s) ==
  /\ Len(s) % 2 = 0
  /\ \A i \in DOMAIN s : s[i] = (IF i % 2 = 1 THEN "{" ELSE "}")

\* no prefix of s closes more braces than it opens
NeverClosesFirst(s) ==
  \A n \in DOMAIN s :
    Count("}", SubSeq(s, 1, n)) <= Count("{", SubSeq(s, 1, n))

\* the braces that are left of s when every "{}" is taken out of it once
Residue(s) ==
  LET pairs == {i \in 1..(Len(s) - 1) : s[i] = "{" /\ s[i + 1] = "}"}
      keep(i) == i \notin pairs /\ (i - 1) \notin pairs
      F[i \in 0..Len(s)] ==
        IF i = 0 THEN << >>
        ELSE IF keep(i) THEN Append(F[i - 1], s[i]) ELSE F[i - 1]
  IN  F[Len(s)]

\* a "{}" is in s
HasPair(s) == \E i \in 1..(Len(s) - 1) : s[i] = "{" /\ s[i + 1] = "}"

\* s uses a shortcut marker: "&" and a word character right after it
HasMarker(s) == \E i \in 1..(Len(s) - 1) : s[i] = "&" /\ IsWord(s[i + 1])

\* the po file of the shortcut pass has gone through the loop of the groups
ShortcutsChecked == argv = "shortcuts" /\ pc = "sc_po_loop" /\ poIdx > 0

\* a report was printed for the group for the current po file
Reported(g) ==
  \E k \in DOMAIN collisions : collisions[k].po = poIdx /\ collisions[k].group = g

\* two translations collected for the group use the same letter
SomeLetterTwice(g) ==
  \E i, j \in DOMAIN real[g] :
    /\ i < j
    /\ HasMarker(real[g][i])
    /\ rex_shortcut_letter_search(real[g][i]) = rex_shortcut_letter_search(real[g][j])

\* get_shortcut_groups has just raised the error or returned
DriftDecided ==
  argv = "shortcuts" /\ pc \in {"raised", "sc_po_loop"} /\ poIdx = 0

\* positions of the entries of the template that are not obsolete and use a
\* shortcut
LivePositions ==
  {i \in DOMAIN template : ~ template[i].obsolete /\ HasMarker(template[i].msgid)}

\* every expected string is the source string of exactly one live shortcut
\* entry of the template, and there is no other live shortcut entry
TemplateAsExpected ==
  /\ \A x \in Range(expect) :
       Cardinality({i \in LivePositions : template[i].msgid = x}) = 1
  /\ \A i \in LivePositions : template[i].msgid \in Range(expect)

(***************************************************************************)
(* C1: for every po file and every group a report is printed for the group *)
(* exactly when two of the translations collected for the group carry the  *)
(* same letter after their marker, letters compared as they are written;   *)
(* translations without marker do not matter.                              *)
(***************************************************************************)
C1_CollisionIffLetterTwice ==
  ShortcutsChecked =>
    \A k \in DOMAIN GroupNames :
      Reported(GroupNames[k]) <=> SomeLetterTwice(GroupNames[k])

\* one group collides, the other holds "S" and "s" and is not reported
C1_Witness ==
  /\ ShortcutsChecked
  /\ Reported("mainwindow")
  /\ ~ Reported("manageprofile")
  /\ Len(collect_letters(real["manageprofile"])) >= 2

(***************************************************************************)
(* C2 as claimed: an entry that passed the balance and the parse check and *)
(* has the brace counts of its source gets the name error exactly when the *)
(* SETS of placeholder names of source and translation differ.             *)
(***************************************************************************)
C2_Precondition ==
  /\ SyntaxChecked
  /\ IgnoreFlag \notin entry.flags
  /\ Range(printed) \cap {"Nested", "Unbalanced", "Malformed"} = {}
  /\ Count("{", entry.msgid) = Count("{", entry.msgstr)
  /\ Count("}", entry.msgid) = Count("}", entry.msgstr)

C2_NameSetsClaim ==
  C2_Precondition =>
    ("NameMismatch" \in Range(printed)
       <=> Range(rex_names_findall(entry.msgid))
             # Range(rex_names_findall(entry.msgstr)))

(***************************************************************************)
(* C2 amended: ... exactly when some name occurs a different number of     *)
(* times in the source and in the translation (order ignored, duplicates   *)
(* counted).                                                               *)
(***************************************************************************)
C2_NameMultisets ==
  C2_Precondition =>
    LET org == rex_names_findall(entry.msgid)
        trans == rex_names_findall(entry.msgstr)
    IN  "NameMismatch" \in Range(printed)
          <=> \E n \in Range(org) \cup Range(trans) : Count(n, org) # Count(n, trans)

\* same names, other multiplicities: the error is printed
C2_Witness ==
  /\ C2_Precondition
  /\ Range(rex_names_findall(entry.msgid)) = Range(rex_names_findall(entry.msgstr))
  /\ printed = << "NameMismatch" >>

(***************************************************************************)
(* C3: with the flag "ignore-placeholder-compare" an entry never gets the  *)
(* count or the name error, but a translation that is not balanced or not  *)
(* parseable is reported all the same; without the flag an entry whose     *)
(* placeholder names are not those of the source is reported.              *)
(***************************************************************************)
C3_FlagSuppressesCompareOnly ==
  SyntaxChecked =>
    /\ IgnoreFlag \in entry.flags =>
         /\ Range(printed) \cap {"CountMismatch", "NameMismatch"} = {}
         /\ (~ IsPairs(BraceProjection(entry.msgstr))
               \/ ~ FormatterParses(entry.msgstr))
              => Range(printed) \cap {"Nested", "Unbalanced", "Malformed"} # {}
    /\ (/\ IgnoreFlag \notin entry.flags
        /\ Range(rex_names_findall(entry.msgid))
             # Range(rex_names_findall(entry.msgstr)))
         => printed # << >>

\* a flagged entry whose names differ from the source went through silently
C3_Witness ==
  /\ SyntaxChecked
  /\ IgnoreFlag \in entry.flags
  /\ Range(rex_names_findall(entry.msgid)) # Range(rex_names_findall(entry.msgstr))
  /\ Count("{", entry.msgid) # Count("{", entry.msgstr)
  /\ printed = << >>

(***************************************************************************)
(* C4 as claimed: a string with as many "{" as "}" in whose residue (the   *)
(* braces, every "{}" deleted once) no "{}" is left is found balanced.     *)
(***************************************************************************)
C4_Premise ==
  /\ BalanceDecided
  /\ Count("{", entry.msgstr) = Count("}", entry.msgstr)
  /\ ~ HasPair(Residue(BraceProjection(entry.msgstr)))

C4_EqualCountsClaim == C4_Premise => BalanceTrue

(***************************************************************************)
(* C4 amended: ... and in which no "}" comes before the "{" it closes (no  *)
(* prefix closes more braces than it opens) is found balanced.             *)
(***************************************************************************)
C4_EqualCountsOpenFirst ==
  (C4_Premise /\ NeverClosesFirst(BraceProjection(entry.msgstr))) => BalanceTrue

\* a string with two placeholders was found balanced
C4_Witness ==
  /\ C4_Premise
  /\ NeverClosesFirst(BraceProjection(entry.msgstr))
  /\ Count("{", entry.msgstr) >= 2
  /\ BalanceTrue

(***************************************************************************)
(* C5: the balance check returns True exactly when the braces of the       *)
(* string are "{}" repeated; else it reports nesting when the residue      *)
(* holds a "{}", and unbalanced braces when the residue is not empty and   *)
(* holds none; nesting goes first.                                         *)
(***************************************************************************)
C5_BalancedIffPairs ==
  BalanceDecided =>
    LET residue == Residue(BraceProjection(entry.msgstr))
        nested == HasPair(residue)
    IN  /\ BalanceTrue <=> IsPairs(BraceProjection(entry.msgstr))
        /\ ~ BalanceTrue =>
             /\ pc = "continue"
             /\ printed = << IF nested THEN "Nested" ELSE "Unbalanced" >>
             /\ residue # << >>

\* a nested translation with as many "{" as "}"
C5_Witness ==
  /\ BalanceDecided
  /\ printed = << "Nested" >>
  /\ Count("{", entry.msgstr) = Count("}", entry.msgstr)

(***************************************************************************)
(* C6 as claimed: an entry with a plural form contributes to no finding:   *)
(* the syntax pass prints nothing for it, and the shortcut pass does not   *)
(* collect its translation into any group.                                 *)
(***************************************************************************)
C6_PluralNeverContributes ==
  /\ [](argv = "syntax" /\ entry # NoEntry /\ has_plural(entry) => printed = << >>)
  /\ [][(pc = "sc_group" /\ has_plural(entry)) => real' = real]_vars

(***************************************************************************)
(* C7 as claimed: the drift check succeeds exactly when the SET of the     *)
(* source strings of the live shortcut entries of the template is the set  *)
(* of the expected strings.                                                *)
(***************************************************************************)
C7_DriftIffSetsDifferClaim ==
  DriftDecided =>
    (pc # "raised"
       <=> {template[i].msgid : i \in LivePositions} = Range(expect))

(***************************************************************************)
(* C7 amended: the drift check succeeds exactly when every expected string *)
(* is the source string of exactly one live shortcut entry of the template *)
(* and no live shortcut entry has another source string; obsolete entries  *)
(* and entries without marker do not matter.                               *)
(***************************************************************************)
C7_DriftIffListsDiffer ==
  DriftDecided =>
    (pc # "raised" <=> TemplateAsExpected)

\* the expected strings and one of them twice: the error is raised
C7_Witness ==
  /\ DriftDecided
  /\ pc = "raised"
  /\ {template[i].msgid : i \in LivePositions} = Range(expect)

(***************************************************************************)
(* C8: when the drift check raises the error no po file is opened and no   *)
(* report is printed; a po file is opened and a report printed only with a *)
(* template that passes the drift check.                                   *)
(***************************************************************************)
C8_DriftHaltsShortcutPass ==
  /\ [](argv = "shortcuts" /\ pc = "raised"
          => poIdx = 0 /\ collisions = << >> /\ real = NoGroups)
  /\ [][(argv = "shortcuts" /\ poIdx' > poIdx)
          => (/\ pc = "sc_po_loop"
              /\ groups = shortcut_groups
              /\ poIdx = 0 => TemplateAsExpected)]_vars
  /\ [][collisions' # collisions => (poIdx > 0 /\ pc' # "raised")]_vars

\* the error was raised for a template with a new shortcut string
C8_Witness ==
  /\ argv = "shortcuts" /\ pc = "raised"
  /\ \E i \in LivePositions : template[i].msgid \notin Range(expect)

(***************************************************************************)
(* C9 as claimed: after a successful drift check every source string of a  *)
(* live shortcut entry of the template is in exactly one group.            *)
(***************************************************************************)
C9_GroupsPartitionClaim ==
  (DriftDecided /\ pc # "raised") =>
    \A i \in LivePositions :
      Cardinality({k \in DOMAIN GroupNames :
                     template[i].msgid \in Range(groups[GroupNames[k]])}) = 1

(***************************************************************************)
(* C10 as claimed: a report carries the note "Maybe missing ones" exactly  *)
(* when fewer letters were collected than the group has source strings;    *)
(* without a letter used twice nothing is reported.                        *)
(***************************************************************************)
C10_NoteIffFewerThanMembersClaim ==
  ShortcutsChecked =>
    \A k \in DOMAIN collisions :
      collisions[k].po = poIdx =>
        (collisions[k].missing
           <=> Len(collect_letters(real[collisions[k].group]))
                 < Len(groups[collisions[k].group]))

(***************************************************************************)
(* C10 amended: a report carries the note exactly when fewer letters were  *)
(* collected than translations were collected for the group of that po     *)
(* file, that is when a collected translation has no marker; without a     *)
(* letter used twice nothing is reported.                                  *)
(***************************************************************************)
C10_NoteIffTranslationWithoutMarker ==
  ShortcutsChecked =>
    /\ \A k \in DOMAIN collisions :
         collisions[k].po = poIdx =>
           (collisions[k].missing
              <=> \E i \in DOMAIN real[collisions[k].group] :
                    ~ HasMarker(real[collisions[k].group][i]))
    /\ \A k \in DOMAIN GroupNames :
         ~ SomeLetterTwice(GroupNames[k]) => ~ Reported(GroupNames[k])

\* a report with the note, and a group with a missing marker and no report
C10_Witness ==
  /\ ShortcutsChecked
  /\ \E k \in DOMAIN collisions : collisions[k].po = poIdx /\ collisions[k].missing
  /\ \E k \in DOMAIN GroupNames :
       /\ ~ Reported(GroupNames[k])
       /\ \E i \in DOMAIN real[GroupNames[k]] : ~ HasMarker(real[GroupNames[k]][i])

(***************************************************************************)
(* C11: the scan of the syntax pass is not halted by what it finds: every  *)
(* translated entry without plural form that the loop takes up goes        *)
(* through the checks to the end of the loop body, whatever was printed    *)
(* for the entries before it and also when the parser raises an exception  *)
(* for its translation, and the scan comes to its regular end.             *)
(***************************************************************************)
C11_ScanNeverHalts ==
  /\ (argv = "syntax" /\ pc = "plural" /\ ~ has_plural(entry)) ~> (pc = "continue")
  /\ (argv = "syntax") ~> (pc = "exit")
  /\ [][(pc \in {"plural", "balanced", "other", "place"})
          => (/\ entry' = entry
              /\ pc' \in {"balanced", "other", "place", "continue"})]_vars
  /\ [][(pc = "continue")
          => (pc' = "entry_loop" /\ entIdx' = entIdx /\ poIdx' = poIdx)]_vars

\* the second entry of a po file got through the checks with the parser's
\* exception caught, after an error was printed for the first
C11_Witness ==
  /\ SyntaxChecked
  /\ entIdx = 2
  /\ reported = 2
  /\ printed = << "Malformed" >>

\* the error of the first check of the loop body that the entry fails
FirstFailure(e) ==
  LET braces == BraceProjection(e.msgstr)
      org == rex_names_findall(e.msgid)
      trans == rex_names_findall(e.msgstr)
  IN  IF ~ IsPairs(braces)
      THEN << IF HasPair(Residue(braces)) THEN "Nested" ELSE "Unbalanced" >>
      ELSE IF ~ FormatterParses(e.msgstr) THEN << "Malformed" >>
      ELSE IF IgnoreFlag \in e.flags THEN << >>
      ELSE IF \/ Count("{", e.msgid) # Count("{", e.msgstr)
              \/ Count("}", e.msgid) # Count("}", e.msgstr)
           THEN << "CountMismatch" >>
      ELSE IF \E n \in Range(org) \cup Range(trans) : Count(n, org) # Count(n, trans)
           THEN << "NameMismatch" >>
      ELSE << >>

(***************************************************************************)
(* C12: for an entry without plural form at most one error is printed, the *)
(* one of the first check that fails in the order balance (nested or       *)
(* unbalanced), parser, number of "{" and of "}" against the source (each  *)
(* compared by itself), placeholder names against the source; after a      *)
(* failed check no other check is made; an entry that passes them all gets *)
(* no error.  The two comparisons with the source pass at once with the    *)
(* flag "ignore-placeholder-compare".                                      *)
(***************************************************************************)
C12_OneFindingOfFirstFailure ==
  (argv = "syntax" /\ entry # NoEntry /\ ~ has_plural(entry)) =>
    /\ Len(printed) <= 1
    /\ printed # << >> => pc = "continue"
    /\ pc = "continue" => printed = FirstFailure(entry)

\* as many "{" as the source, another number of "}": the count error, alone
C12_Witness ==
  /\ SyntaxChecked
  /\ Count("{", entry.msgid) = Count("{", entry.msgstr)
  /\ Count("}", entry.msgid) # Count("}", entry.msgstr)
  /\ Range(rex_names_findall(entry.msgid)) # Range(rex_names_findall(entry.msgstr))
  /\ printed = << "CountMismatch" >>

====
